---- MODULE Spec2Model ----
(***************************************************************************)
(* Model of the bash loadable builtin timep.c (LOADABLES/SRC/timep.c):     *)
(* the command clock_gettime [<VAR>], which reads the process CPU-time     *)
(* clock, converts it to microseconds and prints it or binds it to VAR.    *)
(*                                                                         *)
(* One invocation runs timep_builtin -> clock_gettime_main -> timep_builtin*)
(* and is modelled as the steps Invoke, Dispatch, MainArgs, MainClock*,    *)
(* MainEmit, BuiltinFree*.  The host shell (variable store, stdout, the    *)
(* diagnostic channel, the heap block of argv) and the kernel clock are    *)
(* the environment.                                                        *)
(*                                                                         *)
(* int64_t values are sequences of 8 bytes, least significant first, and   *)
(* all arithmetic on them is modulo 2^64 (two's complement), as the build  *)
(* line of timep.c (gcc -O3, no -ftrapv) produces it on an LP64 target,    *)
(* where time_t, long and long long are all 64 bits wide.  Decimal strings *)
(* are sequences of one-character strings.                                 *)
(***************************************************************************)
EXTENDS Integers, Sequences, FiniteSets, TLC

(***************************************************************************)
(* Bounds of the model.                                                    *)
(***************************************************************************)
\* number of invocations of the builtin in one shell process
MaxCalls == 2
\* largest number of arguments after the command name
MaxArgs == 2

(***************************************************************************)
(* 64-bit integers as 8 bytes, little endian.                              *)
(***************************************************************************)
RECURSIVE NatBytes(_, _)
\* the k low bytes of the natural number n (n < 2^31)
NatBytes(n, k) == IF k = 0 THEN <<>> ELSE <<n % 256>> \o NatBytes(n \div 256, k - 1)

\* the int64_t holding the natural number n (n < 2^31)
FromNat(n) == NatBytes(n, 8)

RECURSIVE MulCarry(_, _, _, _)
MulCarry(x, m, i, carry) ==
    IF i > 8 THEN <<>>
    ELSE LET p == x[i] * m + carry
         IN  <<p % 256>> \o MulCarry(x, m, i + 1, p \div 256)

\* x * m on int64_t, m a constant below 2^23; the bits above 2^64 are lost
Mul64(x, m) == MulCarry(x, m, 1, 0)

RECURSIVE AddCarry(_, _, _, _)
AddCarry(x, y, i, carry) ==
    IF i > 8 THEN <<>>
    ELSE LET s == x[i] + y[i] + carry
         IN  <<s % 256>> \o AddCarry(x, y, i + 1, s \div 256)

\* x + y on int64_t; the carry out of bit 63 is lost
Add64(x, y) == AddCarry(x, y, 1, 0)

\* sign bit of an int64_t
IsNeg(x) == x[8] >= 128

\* -x on int64_t (as an unsigned magnitude when x is INT64_MIN)
Neg64(x) == Add64([i \in 1..8 |-> 255 - x[i]], FromNat(1))

RECURSIVE DivStep(_, _, _, _)
\* long division of the bytes i..1 of u by the small divisor d, with the
\* remainder rem coming in from the higher bytes; yields [q, r], q little
\* endian
DivStep(u, d, i, rem) ==
    IF i = 0 THEN [q |-> <<>>, r |-> rem]
    ELSE LET cur  == rem * 256 + u[i]
             rest == DivStep(u, d, i - 1, cur % d)
         IN  [q |-> rest.q \o <<cur \div d>>, r |-> rest.r]

\* unsigned u divided by d (0 < d <= 10^6): quotient and remainder
DivSmall(u, d) == DivStep(u, d, 8, 0)

\* unsigned comparison, most significant byte first
RECURSIVE ULtFrom(_, _, _)
ULtFrom(x, y, i) ==
    IF i = 0 THEN FALSE
    ELSE IF x[i] # y[i] THEN x[i] < y[i]
    ELSE ULtFrom(x, y, i - 1)

ULt(x, y) == ULtFrom(x, y, 8)

\* signed comparison x <= y of two int64_t
SLe(x, y) ==
    IF IsNeg(x) # IsNeg(y) THEN IsNeg(x) ELSE ~ULt(y, x)

(***************************************************************************)
(* Decimal conversion: printf("%lld"), and reading the text back.          *)
(***************************************************************************)
DigitChars == <<"0", "1", "2", "3", "4", "5", "6", "7", "8", "9">>

RECURSIVE SmallDigits(_)
\* the decimal digits of the natural number n (n < 2^31)
SmallDigits(n) ==
    IF n < 10 THEN <<DigitChars[n + 1]>>
    ELSE SmallDigits(n \div 10) \o <<DigitChars[(n % 10) + 1]>>

\* the six decimal digits of n < 10^6, with leading zeros
SixDigits(n) == [i \in 1..6 |-> DigitChars[((n \div (10 ^ (6 - i))) % 10) + 1]]

RECURSIVE UDigits(_)
\* the decimal digits of the unsigned value u, most significant first,
\* produced six at a time
UDigits(u) ==
    LET qr == DivSmall(u, 1000000)
    IN  IF qr.q = FromNat(0) THEN SmallDigits(qr.r)
        ELSE UDigits(qr.q) \o SixDigits(qr.r)

\* "%d" in place of "%lld": only the low 32 bits are converted, as an int
FormatLLD_AsInt(x) ==
    LET low == [i \in 1..8 |-> IF i <= 4 THEN x[i]
                               ELSE IF x[4] >= 128 THEN 255 ELSE 0]
    IN  IF IsNeg(low) THEN <<"-">> \o UDigits(Neg64(low)) ELSE UDigits(low)

\* what "%lld" writes for the int64_t x
FormatLLD(x) == IF IsNeg(x) THEN <<"-">> \o UDigits(Neg64(x)) ELSE UDigits(x)

\* The inverse of "%lld", used to read the emitted text back in the
\* properties below.
\* value of one decimal digit character
DigitVal(c) == CHOOSE d \in 0..9 : DigitChars[d + 1] = c

RECURSIVE SmallVal(_, _, _)
\* the value of the at most six digits str[from] .. str[to]
SmallVal(str, from, to) ==
    IF to < from THEN 0
    ELSE SmallVal(str, from, to - 1) * 10 + DigitVal(str[to])

RECURSIVE ParseDigits(_, _, _)
\* the unsigned value of the digits str[from] .. str[to], modulo 2^64,
\* consumed six at a time
ParseDigits(str, from, to) ==
    IF to - from < 6 THEN FromNat(SmallVal(str, from, to))
    ELSE Add64(Mul64(ParseDigits(str, from, to - 6), 1000000),
               FromNat(SmallVal(str, to - 5, to)))

\* the int64_t a decimal string (optional '-', then digits) denotes
ParseLLD(str) ==
    IF str # <<>> /\ str[1] = "-" THEN Neg64(ParseDigits(str, 2, Len(str)))
    ELSE ParseDigits(str, 1, Len(str))

\* a string of decimal digits only: matches ^[0-9]+$
IsDigitString(s) ==
    /\ s # <<>>
    /\ \A i \in 1..Len(s) : \E d \in 1..10 : DigitChars[d] = s[i]

(***************************************************************************)
(* Program constants and the environment's input sets.                     *)
(***************************************************************************)
\* bash's exit statuses (shell.h), as timep.c returns them
EXECUTION_SUCCESS == 0
EXECUTION_FAILURE == 1

\* the name the builtin is registered under, and another command name
CmdNames == {"clock_gettime", "timep"}

\* the words an invocation may carry as arguments
Words == {"", "RESULT", "t"}

RECURSIVE SeqsUpTo(_, _)
\* all sequences over S of length at most n
SeqsUpTo(S, n) ==
    IF n = 0 THEN {<<>>}
    ELSE LET shorter == SeqsUpTo(S, n - 1)
         IN  shorter \cup {Append(q, w) : q \in {r \in shorter : Len(r) = n - 1}, w \in S}

ArgLists == SeqsUpTo(Words, MaxArgs)

\* errors the clock_gettime system call may report, and strerror of them
Errnos == {"EINVAL", "EPERM"}
Strerror(e) == IF e = "EINVAL" THEN "Invalid argument" ELSE "Operation not permitted"

\* a seconds count a * 10^6 + b as a 64-bit time_t
Seconds(a, b) == Add64(Mul64(FromNat(a), 1000000), FromNat(b))

\* the largest time_t, 2^63 - 1
TimeMax == [i \in 1..8 |-> IF i = 8 THEN 127 ELSE 255]

\* readings of the process CPU-time clock, in increasing order; tv_nsec is
\* always within 0 .. 999999999
ClockSamples ==
    << [sec |-> Seconds(0, 0),           nsec |-> 0],
       [sec |-> Seconds(0, 0),           nsec |-> 1999],
       [sec |-> Seconds(0, 0),           nsec |-> 999999999],
       [sec |-> Seconds(0, 1),           nsec |-> 0],
       [sec |-> Seconds(9223372, 36854), nsec |-> 775807999],
       [sec |-> Seconds(9223372, 36854), nsec |-> 775808000],
       [sec |-> TimeMax,                 nsec |-> 999999999] >>

Readings == {ClockSamples[i] : i \in 1..Len(ClockSamples)}

\* reading a is not later than reading b
ClockLe(a, b) ==
    \/ ULt(a.sec, b.sec)
    \/ a.sec = b.sec /\ a.nsec <= b.nsec

\* an unset shell variable, and the NULL varname
Unset == <<>>
NullName == <<>>

(***************************************************************************)
(* The pure steps of clock_gettime_main.                                   *)
(***************************************************************************)
\* argc > 3 in place of argc > 2
TooManyArgs_OffByOne(n) == n > 3

\* timep.c:67  if (argc > 2)
TooManyArgs(n) == n > 2

\* the test argv[1][0] != '\0' left out
DestVar_NoEmptyCheck(n, av) == IF n = 2 THEN <<av[2]>> ELSE NullName

\* timep.c:71-74  varname = argv[1] when there is one non-empty argument
DestVar(n, av) == IF n = 2 /\ av[2] # "" THEN <<av[2]>> ELSE NullName

\* division rounding to nearest in place of truncating
TruncDiv_Rounding(a, b) == (a + (b \div 2)) \div b

\* C's integer division of non-negative a by positive b (truncating)
TruncDiv(a, b) == a \div b

\* the seconds left unscaled: ts.tv_sec + ts.tv_nsec / 1000
Micros_Unscaled(t) == Add64(t.sec, FromNat(TruncDiv(t.nsec, 1000)))

\* timep.c:85  int64_t micros = ts.tv_sec * 1000000LL + ts.tv_nsec / 1000
Micros(t) == Add64(Mul64(t.sec, 1000000), FromNat(TruncDiv(t.nsec, 1000)))

\* timep.c:89  snprintf(buf_micros, sizeof(buf_micros), "%lld", micros); the
\* longest output, 20 characters, fits the 32-byte buffer
BufMicros(m) == FormatLLD(m)

\* timep.c:92  printf("%lld\n", micros)
PrintedLine(m) == FormatLLD(m) \o <<"\n">>

\* the variables the shell holds readonly before the builtin is used, and
\* the value such a variable has
ReadonlySets == {{}, {"RESULT"}}
ReadonlyValue == <<"5">>

\* bind_variable(name, value, 0) of the host shell: a readonly variable is
\* not assigned
BindVariable(store, ro, name, value) ==
    IF name \in ro THEN store ELSE [store EXCEPT ![name] = value]

\* what bind_variable reports on the diagnostic channel: a refused
\* assignment is reported by the shell; line 90 discards the result
BindDiag(ro, name) ==
    IF name \in ro THEN <<name \o ": readonly variable">> ELSE <<>>

(***************************************************************************)
(* State.                                                                  *)
(***************************************************************************)
VARIABLES
    pc,        \* position of the shell in the invocation
    supported, \* CLOCK_PROCESS_CPUTIME_ID is defined on this build
    readonly,  \* the names of the shell's readonly variables
    clock,     \* the kernel's process CPU-time clock
    argv,      \* the argument vector of the invocation, argv[1] the command
    argc,      \* its length
    argvMem,   \* the heap block of argv: "none", "allocated", "freed"
    varname,   \* clock_gettime_main's varname: <<name>> or NullName
    ts,        \* clock_gettime_main's struct timespec
    ret,       \* timep_builtin's ret
    status,    \* the exit status the shell received from the last invocation
    out,       \* standard output: the lines written so far
    vars,      \* the shell's variable store
    diag,      \* the diagnostic channel: builtin_error messages so far
    calls,     \* invocations started
    pre,       \* out, vars and diag as they were when the invocation began
    reads,     \* clock reads performed by the invocation
    readOk,    \* outcome of its clock read: "none", "ok", "failed"
    binds,     \* bind_variable calls made by the invocation
    frees,     \* xfree(argv) calls made by the invocation
    reports    \* every decimal value emitted so far, with the reading it came from

vars_all == <<pc, supported, readonly, clock, argv, argc, argvMem, varname, ts, ret,
              status, out, vars, diag, calls, pre, reads, readOk, binds,
              frees, reports>>

locals == <<varname, ts>>
ghosts == <<calls, pre, reads, readOk, binds, reports>>

Init ==
    /\ pc = "idle"
    /\ supported \in BOOLEAN
    /\ clock = ClockSamples[1]
    /\ argv = <<>>
    /\ argc = 0
    /\ argvMem = "none"
    /\ varname = NullName
    /\ ts = ClockSamples[1]
    /\ ret = EXECUTION_SUCCESS
    /\ status = EXECUTION_SUCCESS
    /\ out = <<>>
    /\ readonly \in ReadonlySets
    /\ vars = [w \in Words |-> IF w \in readonly THEN ReadonlyValue ELSE Unset]
    /\ diag = <<>>
    /\ calls = 0
    /\ pre = [out |-> <<>>, vars |-> vars, diag |-> <<>>]
    /\ reads = 0
    /\ readOk = "none"
    /\ binds = <<>>
    /\ frees = 0
    /\ reports = <<>>

(***************************************************************************)
(* The environment: process CPU time passes.                               *)
(***************************************************************************)
Tick ==
    /\ pc # "aborted"
    /\ \E r \in Readings :
          /\ r # clock
          /\ ClockLe(clock, r)
          /\ clock' = r
    /\ UNCHANGED <<pc, supported, readonly, argv, argc, argvMem, varname, ts, ret,
                   status, out, vars, diag, calls, pre, reads, readOk,
                   binds, frees, reports>>

(***************************************************************************)
(* timep_builtin, lines 116-120: the shell calls the builtin and           *)
(* make_builtin_argv allocates argv.                                       *)
(***************************************************************************)
Invoke ==
    /\ pc = "idle"
    /\ calls < MaxCalls
    /\ \E cmd \in CmdNames, args \in ArgLists :
          /\ argv' = <<cmd>> \o args
          /\ argc' = 1 + Len(args)
    /\ argvMem' = "allocated"
    /\ pc' = "dispatch"
    /\ calls' = calls + 1
    /\ pre' = [out |-> out, vars |-> vars, diag |-> diag]
    /\ reads' = 0
    /\ readOk' = "none"
    /\ binds' = <<>>
    /\ frees' = 0
    /\ UNCHANGED <<supported, readonly, clock, varname, ts, ret, status, out, vars,
                   diag, reports>>

(***************************************************************************)
(* timep_builtin, lines 123-128: strcmp(sub, "clock_gettime").             *)
(***************************************************************************)
DispatchKnown ==
    /\ pc = "dispatch"
    /\ argv[1] = "clock_gettime"
    /\ pc' = "main_args"
    /\ UNCHANGED <<supported, readonly, clock, argv, argc, argvMem, ret, status, out,
                   vars, diag, frees, locals, ghosts>>

DispatchUnknown ==
    /\ pc = "dispatch"
    /\ argv[1] # "clock_gettime"
    /\ diag' = Append(diag, "timep: unknown command '" \o argv[1] \o "'")
    /\ ret' = EXECUTION_FAILURE
    /\ pc' = "free"
    /\ UNCHANGED <<supported, readonly, clock, argv, argc, argvMem, status, out, vars,
                   frees, locals, ghosts>>

(***************************************************************************)
(* clock_gettime_main, lines 67-74.                                        *)
(***************************************************************************)
MainTooMany ==
    /\ pc = "main_args"
    /\ TooManyArgs(argc)
    /\ diag' = Append(diag, "clock_gettime: too many arguments")
    /\ ret' = EXECUTION_FAILURE
    /\ pc' = "free"
    /\ UNCHANGED <<supported, readonly, clock, argv, argc, argvMem, status, out, vars,
                   frees, locals, ghosts>>

MainArgs ==
    /\ pc = "main_args"
    /\ ~TooManyArgs(argc)
    /\ varname' = DestVar(argc, argv)
    /\ pc' = "main_clock"
    /\ UNCHANGED <<supported, readonly, clock, argv, argc, argvMem, ts, ret, status,
                   out, vars, diag, frees, ghosts>>

(***************************************************************************)
(* xfree(argv): free() of a block that is allocated.  Freeing a block that *)
(* is already freed is undefined; BuiltinFreeAgain* give its outcomes.     *)
(***************************************************************************)
Xfree(mem) == IF mem = "allocated" THEN "freed" ELSE mem

(***************************************************************************)
(* clock_gettime_main, lines 96-99: built without CLOCK_PROCESS_CPUTIME_ID.*)
(***************************************************************************)
MainUnsupported ==
    /\ pc = "main_clock"
    /\ ~supported
    /\ diag' = Append(diag, "clock_gettime is not supported on this system.")
    /\ argvMem' = Xfree(argvMem)
    /\ frees' = frees + 1
    /\ ret' = EXECUTION_FAILURE
    /\ pc' = "free"
    /\ UNCHANGED <<supported, readonly, clock, argv, argc, status, out, vars, locals,
                   ghosts>>

(***************************************************************************)
(* clock_gettime_main, lines 77-82: the clock read.                        *)
(***************************************************************************)
MainClockOk ==
    /\ pc = "main_clock"
    /\ supported
    /\ ts' = clock
    /\ reads' = reads + 1
    /\ readOk' = "ok"
    /\ pc' = "main_emit"
    /\ UNCHANGED <<supported, readonly, clock, argv, argc, argvMem, varname, ret,
                   status, out, vars, diag, calls, pre, binds, frees,
                   reports>>

MainClockFail ==
    /\ pc = "main_clock"
    /\ supported
    /\ \E e \in Errnos :
          diag' = Append(diag, "clock_gettime failed: " \o Strerror(e))
    /\ reads' = reads + 1
    /\ readOk' = "failed"
    /\ argvMem' = Xfree(argvMem)
    /\ frees' = frees + 1
    /\ ret' = EXECUTION_FAILURE
    /\ pc' = "free"
    /\ UNCHANGED <<supported, readonly, clock, argv, argc, varname, ts, status, out,
                   vars, calls, pre, binds, reports>>

(***************************************************************************)
(* clock_gettime_main, lines 85-94: convert, then bind or print.           *)
(***************************************************************************)
MainEmit ==
    /\ pc = "main_emit"
    /\ LET micros == Micros(ts)
       IN  /\ IF varname # NullName
              THEN /\ vars' = BindVariable(vars, readonly, varname[1],
                                           BufMicros(micros))
                   /\ diag' = diag \o BindDiag(readonly, varname[1])
                   /\ binds' = Append(binds, <<varname[1], BufMicros(micros)>>)
                   /\ out' = out
              ELSE /\ out' = Append(out, PrintedLine(micros))
                   /\ UNCHANGED <<vars, diag, binds>>
           /\ reports' = Append(reports, [ts |-> ts, text |-> BufMicros(micros)])
    /\ ret' = EXECUTION_SUCCESS
    /\ pc' = "free"
    /\ UNCHANGED <<supported, readonly, clock, argv, argc, argvMem, varname, ts,
                   status, calls, pre, reads, readOk, frees>>

(***************************************************************************)
(* timep_builtin, lines 130-131: xfree(argv); return ret.                  *)
(***************************************************************************)
BuiltinFree ==
    /\ pc = "free"
    /\ argvMem = "allocated"
    /\ argvMem' = Xfree(argvMem)
    /\ frees' = frees + 1
    /\ status' = ret
    /\ pc' = "idle"
    /\ UNCHANGED <<supported, readonly, clock, argv, argc, ret, out, vars, diag,
                   locals, ghosts>>

\* the block was already freed by clock_gettime_main and free() does not
\* notice: the invocation returns
BuiltinFreeAgainReturns ==
    /\ pc = "free"
    /\ argvMem = "freed"
    /\ frees' = frees + 1
    /\ status' = ret
    /\ pc' = "idle"
    /\ UNCHANGED <<supported, readonly, clock, argv, argc, argvMem, ret, out, vars,
                   diag, locals, ghosts>>

\* the block was already freed by clock_gettime_main and free() detects it:
\* the allocator aborts the shell, which receives no exit status
BuiltinFreeAgainAborts ==
    /\ pc = "free"
    /\ argvMem = "freed"
    /\ frees' = frees + 1
    /\ pc' = "aborted"
    /\ UNCHANGED <<supported, readonly, clock, argv, argc, argvMem, ret, status, out,
                   vars, diag, locals, ghosts>>

Next ==
    \/ Tick
    \/ Invoke
    \/ DispatchKnown
    \/ DispatchUnknown
    \/ MainTooMany
    \/ MainArgs
    \/ MainUnsupported
    \/ MainClockOk
    \/ MainClockFail
    \/ MainEmit
    \/ BuiltinFree
    \/ BuiltinFreeAgainReturns
    \/ BuiltinFreeAgainAborts

Spec == Init /\ [][Next]_vars_all

(***************************************************************************)
(* Vocabulary of the properties.                                           *)
(***************************************************************************)
\* the current (or last) invocation is one of the command clock_gettime
IsClockGettime == calls > 0 /\ argv[1] = "clock_gettime"

\* the invocation has left clock_gettime_main
PastMain == pc \in {"free", "idle", "aborted"}

\* the invocation has returned to the shell
Returned == calls > 0 /\ pc = "idle"

\* the clock read of the invocation succeeded and the value was emitted
AfterEmit == calls > 0 /\ readOk = "ok" /\ PastMain

\* a string without its last character
Front(str) == SubSeq(str, 1, Len(str) - 1)

\* the decimal text the invocation emitted (meaningful when AfterEmit): the
\* value handed to bind_variable, or the line printed without its newline
Emitted ==
    IF varname # NullName THEN binds[Len(binds)][2] ELSE Front(out[Len(out)])

\* a canonical decimal rendering of a 64-bit signed integer
IsDecimal(str) == str # <<>> /\ str # <<"-">> /\ FormatLLD(ParseLLD(str)) = str

\* the stdout, variables and diagnostics are as the invocation found them
NothingEmitted == out = pre.out /\ vars = pre.vars /\ binds = <<>>

\* the largest tv_sec whose microseconds can still fit: (2^63 - 1) div 10^6
SecLimit == Seconds(9223372, 36854)

\* tv_sec * 10^6 + tv_nsec / 1000 <= 2^63 - 1, for tv_sec >= 0
FitsInt64(t) ==
    \/ ULt(t.sec, SecLimit)
    \/ t.sec = SecLimit /\ t.nsec \div 1000 <= 775807

(***************************************************************************)
(* C1: an invocation of clock_gettime with more than one argument          *)
(* (argc > 2) performs no clock read, writes nothing to standard output,   *)
(* binds no variable, reports 'too many arguments' and returns             *)
(* EXECUTION_FAILURE.                                                      *)
(***************************************************************************)
C1_TooManyArgsFail ==
    (IsClockGettime /\ argc > 2) =>
        /\ reads = 0
        /\ NothingEmitted
        /\ pc \notin {"main_clock", "main_emit", "aborted"}
        /\ PastMain =>
              /\ ret = EXECUTION_FAILURE
              /\ diag = Append(pre.diag, "clock_gettime: too many arguments")
        /\ Returned => status = EXECUTION_FAILURE

C1_Witness ==
    /\ Returned
    /\ argv = <<"clock_gettime", "RESULT", "t">>
    /\ status = EXECUTION_FAILURE
    /\ Len(diag) = Len(pre.diag) + 1

(***************************************************************************)
(* C2: an invocation of clock_gettime with exactly one non-empty argument  *)
(* VAR whose clock read succeeds binds VAR exactly once, to the decimal    *)
(* string of the microsecond value of that read, binds no other variable,  *)
(* writes nothing to standard output and returns EXECUTION_SUCCESS.        *)
(***************************************************************************)
C2_AssignsToVar ==
    (IsClockGettime /\ argc = 2 /\ argv[2] # "" /\ AfterEmit) =>
        /\ Len(binds) = 1
        /\ binds[1][1] = argv[2]
        /\ IsDecimal(binds[1][2])
        /\ ParseLLD(binds[1][2]) = Micros(ts)
        /\ vars = [pre.vars EXCEPT ![argv[2]] = binds[1][2]]
        /\ out = pre.out
        /\ diag = pre.diag
        /\ pc # "aborted"
        /\ Returned => status = EXECUTION_SUCCESS

(***************************************************************************)
(* C3: an invocation of clock_gettime with no argument, or with a single   *)
(* empty argument, whose clock read succeeds writes exactly one line to    *)
(* standard output, the decimal microsecond value and a newline, binds no  *)
(* variable and returns EXECUTION_SUCCESS.  The outcome is the same        *)
(* function of the reading and of the state before the invocation in both  *)
(* cases.                                                                  *)
(***************************************************************************)
C3_PrintsWithoutVar ==
    (IsClockGettime /\ (argc = 1 \/ (argc = 2 /\ argv[2] = "")) /\ AfterEmit) =>
        /\ Len(out) = Len(pre.out) + 1
        /\ Front(out) = pre.out
        /\ out[Len(out)] = Emitted \o <<"\n">>
        /\ IsDecimal(Emitted)
        /\ ParseLLD(Emitted) = Micros(ts)
        /\ vars = pre.vars
        /\ binds = <<>>
        /\ diag = pre.diag
        /\ pc # "aborted"
        /\ Returned => status = EXECUTION_SUCCESS

C3_Witness ==
    /\ Returned
    /\ argv = <<"clock_gettime", "">>
    /\ readOk = "ok"
    /\ out = <<<<"1", "0", "0", "0", "0", "0", "0", "\n">>>>
    /\ vars = [w \in Words |-> Unset]
    /\ status = EXECUTION_SUCCESS

(***************************************************************************)
(* C4: the value printed or assigned equals, in the int64_t arithmetic of  *)
(* the expression, tv_sec * 1000000 + tv_nsec / 1000 with the division     *)
(* truncating: taking the microseconds of tv_nsec off the value leaves     *)
(* tv_sec * 1000000, and the remainder tv_nsec % 1000 has no influence.    *)
(***************************************************************************)
C4_MicrosFormula ==
    AfterEmit =>
        LET v  == ParseLLD(Emitted)
            us == (ts.nsec - (ts.nsec % 1000)) \div 1000
        IN  /\ IsDecimal(Emitted)
            /\ Add64(v, Neg64(FromNat(us))) = Mul64(ts.sec, 1000000)
            /\ Emitted = reports[Len(reports)].text
            /\ (varname # NullName /\ varname[1] \notin readonly) =>
                  vars[varname[1]] = Emitted

C4_Witness ==
    /\ AfterEmit
    /\ ts.nsec = 1999
    /\ Emitted = <<"1">>

(***************************************************************************)
(* C6, as amended: when the reading has tv_sec >= 0, 0 <= tv_nsec < 10^9   *)
(* and tv_sec * 10^6 + tv_nsec / 1000 <= 2^63 - 1, the emitted text is a   *)
(* string of digits only, it parses back to the non-negative 64-bit value  *)
(* computed, and that value is exactly tv_sec * 10^6 + tv_nsec / 1000      *)
(* (dividing it by 10^6 gives back tv_sec and tv_nsec / 1000).             *)
(***************************************************************************)
NonNegativeExact ==
    LET v == ParseLLD(Emitted)
    IN  /\ IsDigitString(Emitted)
        /\ ~IsNeg(v)
        /\ FormatLLD(v) = Emitted
        /\ DivSmall(v, 1000000) = [q |-> ts.sec, r |-> ts.nsec \div 1000]

C6_NonNegativeWhenFits == (AfterEmit /\ FitsInt64(ts)) => NonNegativeExact

C6_Witness ==
    /\ AfterEmit
    /\ ts = ClockSamples[5]
    /\ Emitted = <<"9", "2", "2", "3", "3", "7", "2", "0", "3", "6",
                   "8", "5", "4", "7", "7", "5", "8", "0", "7">>

\* C6 as stated: for every reading with tv_sec >= 0 and tv_nsec in range
C6_NonNegativeAlways == AfterEmit => NonNegativeExact

(***************************************************************************)
(* C7, as amended: when the clock never goes backwards, readings have      *)
(* 0 <= tv_nsec < 10^9 and the microseconds of the readings fit in 63 bits,*)
(* a later invocation never reports less than an earlier one.              *)
(***************************************************************************)
C7_MonotoneWhenFits ==
    \A i, j \in 1..Len(reports) :
        (i < j /\ FitsInt64(reports[i].ts) /\ FitsInt64(reports[j].ts)) =>
            SLe(ParseLLD(reports[i].text), ParseLLD(reports[j].text))

C7_Witness ==
    /\ Len(reports) = 2
    /\ reports[1].ts = ClockSamples[3]
    /\ reports[2].ts = ClockSamples[4]
    /\ reports[1].text = <<"9", "9", "9", "9", "9", "9">>
    /\ reports[2].text = <<"1", "0", "0", "0", "0", "0", "0">>

\* C7 as stated: for all readings of a clock that never goes backwards
C7_MonotoneAlways ==
    \A i, j \in 1..Len(reports) :
        i < j => SLe(ParseLLD(reports[i].text), ParseLLD(reports[j].text))

\* the clock itself never goes backwards between the reads
ClockMonotone ==
    \A i, j \in 1..Len(reports) : i < j => ClockLe(reports[i].ts, reports[j].ts)

(***************************************************************************)
(* C5: when the clock read fails the invocation returns EXECUTION_FAILURE, *)
(* with one diagnostic 'clock_gettime failed: <strerror>', and standard    *)
(* output and the variable store are as before the invocation.             *)
(***************************************************************************)
C5_ClockFailureFails ==
    (calls > 0 /\ readOk = "failed") =>
        /\ NothingEmitted
        /\ \E e \in Errnos :
              diag = Append(pre.diag, "clock_gettime failed: " \o Strerror(e))
        /\ ret = EXECUTION_FAILURE
        /\ pc # "aborted"
        /\ Returned => status = EXECUTION_FAILURE

(***************************************************************************)
(* C9: built without the process CPU-time clock, an invocation of          *)
(* clock_gettime with at most one argument returns EXECUTION_FAILURE with  *)
(* the diagnostic 'clock_gettime is not supported on this system.', reads  *)
(* no clock, writes nothing to standard output and binds no variable.      *)
(***************************************************************************)
C9_UnsupportedFails ==
    (IsClockGettime /\ ~supported /\ argc <= 2) =>
        /\ reads = 0
        /\ NothingEmitted
        /\ PastMain =>
              /\ ret = EXECUTION_FAILURE
              /\ diag = Append(pre.diag,
                               "clock_gettime is not supported on this system.")
        /\ pc # "aborted"
        /\ Returned => status = EXECUTION_FAILURE

(***************************************************************************)
(* C8: an invocation of clock_gettime ends by returning a status, which is *)
(* EXECUTION_SUCCESS exactly when at most one argument was given, the      *)
(* clock is supported and the read succeeded, and EXECUTION_FAILURE        *)
(* otherwise; a failing invocation prints nothing and binds nothing.       *)
(***************************************************************************)
C8_StatusIffSuccess ==
    (IsClockGettime /\ pc \in {"idle", "aborted"}) =>
        /\ pc = "idle"
        /\ status \in {EXECUTION_SUCCESS, EXECUTION_FAILURE}
        /\ status = EXECUTION_SUCCESS <=>
              (argc <= 2 /\ supported /\ readOk = "ok")
        /\ status = EXECUTION_FAILURE => NothingEmitted

(***************************************************************************)
(* C10: on every path of an invocation the argv block is released exactly  *)
(* once by the time timep_builtin returns: never twice, never left         *)
(* allocated, and the shell is not aborted.                                *)
(***************************************************************************)
C10_ArgvFreedOnce ==
    /\ frees <= 1
    /\ pc # "aborted"
    /\ Returned => (frees = 1 /\ argvMem = "freed")

====
